---- MODULE Spec2Model ----
(***************************************************************************)
(* Model of app.py: create_before_after_comparison, the compositing        *)
(* function of the before/after viewer, and the slider path of main that   *)
(* drives it.                                                              *)
(*                                                                         *)
(* An image is a record [h, w, ch, px]: height, width, channel count and   *)
(* the pixels, px[<<r, c>>] being the channel tuple at row r, column c     *)
(* (0-based, as numpy indexes them).  numpy's copy/view distinction is     *)
(* kept: the function works on a memory of named buffers, a slice is a     *)
(* view (a window on a buffer), np.array and np.copy allocate.             *)
(*                                                                         *)
(* slider_position is a multiple of 1/FDen, kept as its numerator;         *)
(* width * slider_position is computed exactly (binary floating point      *)
(* rounding of the product is not modelled).                               *)
(***************************************************************************)
EXTENDS Integers, Sequences, FiniteSets, TLC

\* ------------------------------------------------------------ bounds
MaxW == 10      \* widths 0..MaxW
MaxH == 2       \* heights 0..MaxH
FDen == 4       \* slider positions are multiples of 1/FDen

\* ------------------------------------------------------------ state
VARIABLES
  image1,           \* the caller's "before" image (left side)
  image2,           \* the caller's "after" image (right side)
  slider_position,  \* numerator of the boundary fraction, over FDen
  img1_np,          \* the array np.array(image1) allocated, after the call
  img2_np,          \* the array np.array(image2) allocated, after the call
  frame,            \* the call's integer locals: height, width, boundary_x, ...
  result            \* the returned image, ValueError, or NoResult before a call

vars == <<image1, image2, slider_position, img1_np, img2_np, frame, result>>

NoResult == [tag |-> "none"]
ValueError == [tag |-> "ValueError"]   \* the call raised instead of returning
IsImage(x) == "px" \in DOMAIN x

\* ------------------------------------------------------------ helpers
min(a, b) == IF a <= b THEN a ELSE b
max(a, b) == IF a >= b THEN a ELSE b

\* int(x) of a float x = n / d (d > 0): truncation toward zero.
int(n, d) == IF n >= 0 THEN n \div d ELSE 0 - ((0 - n) \div d)

\* Start or stop of a Python slice, normalised against an axis of length n:
\* a negative index counts from the end, and both ends are clipped to 0..n.
SliceIndex(i, n) == IF i < 0 THEN max(n + i, 0) ELSE min(i, n)

Positions(h, w) == (0 .. h - 1) \X (0 .. w - 1)

\* Variant: the window is taken from the bottom-right corner.
Crop_from_far_corner(g, h, w) ==
  [h |-> h, w |-> w, ch |-> g.ch,
   px |-> [p \in Positions(h, w) |-> g.px[<<p[1] + (g.h - h), p[2] + (g.w - w)>>]]]

\* g[:h, :w] read out: the top-left h x w window of grid g.
Crop(g, h, w) ==
  [h |-> h, w |-> w, ch |-> g.ch, px |-> [p \in Positions(h, w) |-> g.px[p]]]

\* A view: the top-left h x w window on the buffer named buf.
View(buf, h, w) == [buf |-> buf, h |-> h, w |-> w]

ReadView(mem, v) == Crop(mem[v.buf], v.h, v.w)

\* np.array(image): a fresh array `name` holding the image's pixels.
np_array(mem, image, name) ==
  [mem |-> (name :> mem[image]) @@ mem,
   ref |-> View(name, mem[image].h, mem[image].w)]

\* a[:h, :w]: basic slicing gives a view on the same buffer.
slice(v, h, w) == View(v.buf, min(v.h, h), min(v.w, w))

\* Variant: result = img1_np, the sliced view itself; nothing is allocated.
np_copy_alias(mem, v, name) == [mem |-> mem, ref |-> v]

\* np.copy(a): a fresh array `name` holding what the view shows.
np_copy(mem, v, name) ==
  [mem |-> (name :> ReadView(mem, v)) @@ mem, ref |-> View(name, v.h, v.w)]

\* Shapes of dst[:, lo:] and src[:, lo:] agree (rows, columns, channels);
\* numpy raises ValueError on the assignment when they do not.
same_shape(mem, dst, src) ==
  dst.h = src.h /\ dst.w = src.w /\ mem[dst.buf].ch = mem[src.buf].ch

\* Variant: the copy starts one column late.
assign_columns_from_next(mem, dst, src, lo, hi) ==
  LET a == SliceIndex(lo + 1, dst.w)
      b == SliceIndex(hi, dst.w)
      g == mem[dst.buf]
      s == mem[src.buf]
  IN  [mem EXCEPT ![dst.buf] =
        [g EXCEPT !.px =
          [p \in DOMAIN g.px |->
            IF p[1] < dst.h /\ p[2] >= a /\ p[2] < b THEN s.px[p] ELSE g.px[p]]]]

\* dst[:, lo:hi] = src[:, lo:hi], dst and src views of the same shape:
\* the write lands in dst's buffer.
assign_columns(mem, dst, src, lo, hi) ==
  LET a == SliceIndex(lo, dst.w)
      b == SliceIndex(hi, dst.w)
      g == mem[dst.buf]
      s == mem[src.buf]
  IN  [mem EXCEPT ![dst.buf] =
        [g EXCEPT !.px =
          [p \in DOMAIN g.px |->
            IF p[1] < dst.h /\ p[2] >= a /\ p[2] < b THEN s.px[p] ELSE g.px[p]]]]

\* dst[:, lo:hi] = colour: the colour list is broadcast against the
\* channel axis of dst.
fill_columns(mem, dst, lo, hi, colour) ==
  LET a == SliceIndex(lo, dst.w)
      b == SliceIndex(hi, dst.w)
      g == mem[dst.buf]
  IN  [mem EXCEPT ![dst.buf] =
        [g EXCEPT !.px =
          [p \in DOMAIN g.px |->
            IF p[1] < dst.h /\ p[2] >= a /\ p[2] < b THEN colour ELSE g.px[p]]]]

\* numpy broadcasts a value of shape (n,) into (.., .., ch) only when
\* n = ch or n = 1; otherwise the assignment raises ValueError.
broadcasts(colour, ch) == Len(colour) = ch \/ Len(colour) = 1

\* ------------------------------------------------------------ the function
line_thickness == 3
white == <<255, 255, 255>>

\* Variant: the boundary lands one column further right.
boundary_past(width, pos) == int(width * pos, FDen) + 1

\* boundary_x = int(width * slider_position)
boundary(width, pos) == int(width * pos, FDen)

\* Variant: the test admits the boundary at column 0 and at the last column.
draws_line_at_edges(boundary_x, width) == boundary_x >= 0 /\ boundary_x <= width - 1

\* if boundary_x > 0 and boundary_x < width - 1
draws_line(boundary_x, width) == boundary_x > 0 /\ boundary_x < width - 1

start_x_of(boundary_x) == max(0, boundary_x - line_thickness \div 2)

\* Variant: the band's end includes the column right of the boundary.
end_x_inclusive(boundary_x, width) ==
  min(width, boundary_x + line_thickness \div 2 + 1)

end_x_of(boundary_x, width) == min(width, boundary_x + line_thickness \div 2)

create_before_after_comparison(im1, im2, pos) ==
  LET m0 == ("image1" :> im1) @@ ("image2" :> im2)
      a1 == np_array(m0, "image1", "img1_np")
      a2 == np_array(a1.mem, "image2", "img2_np")
      height == min(a1.ref.h, a2.ref.h)
      width == min(a1.ref.w, a2.ref.w)
      v1 == slice(a1.ref, height, width)
      v2 == slice(a2.ref, height, width)
      res == np_copy(a2.mem, v1, "result")
      boundary_x == boundary(width, pos)
      fits == same_shape(res.mem, res.ref, v2)
      m3 == IF fits THEN assign_columns(res.mem, res.ref, v2, boundary_x, width)
                    ELSE res.mem
      line == fits /\ draws_line(boundary_x, width)
      start_x == start_x_of(boundary_x)
      end_x == end_x_of(boundary_x, width)
      paints == line /\ broadcasts(white, m3[res.ref.buf].ch)
      m4 == IF paints THEN fill_columns(m3, res.ref, start_x, end_x, white) ELSE m3
      base == [height |-> height, width |-> width, boundary_x |-> boundary_x]
  IN  [image1 |-> m4["image1"],
       image2 |-> m4["image2"],
       img1_np |-> m4["img1_np"],
       img2_np |-> m4["img2_np"],
       frame |-> IF line
                   THEN ("start_x" :> start_x) @@ ("end_x" :> end_x) @@ base
                   ELSE base,
       result |-> IF fits /\ (line => paints)
                    THEN ReadView(m4, res.ref)   \* Image.fromarray(result)
                    ELSE ValueError]

\* ------------------------------------------------------------ inputs
Kinds == {"coded", "flat"}
Channels == {3, 4}

\* Channel value of the pixel at (r, c): "coded" images carry a value that
\* names the position, distinct between the two images; "flat" images are
\* one colour throughout (1 before, 9 after).
Value(kind, which, r, c) ==
  IF kind = "flat" THEN (IF which = 1 THEN 1 ELSE 9)
  ELSE (which - 1) * 100 + r * (MaxW + 1) + c + 10

Pixel(v, ch) == [i \in 1 .. ch |-> v]

Image(kind, which, h, w, ch) ==
  [h |-> h, w |-> w, ch |-> ch,
   px |-> [p \in Positions(h, w) |-> Pixel(Value(kind, which, p[1], p[2]), ch)]]

Images(which, ch) ==
  {Image(k, which, h, w, ch) : k \in Kinds, h \in 0 .. MaxH, w \in 0 .. MaxW}

\* Boundary fractions handed to the function: from below 0 to above 1.
Positions_f == (0 - FDen - 1) .. (FDen + 3)

\* The slider of main: min_value 0.0, max_value 1.0.
SliderValues == 0 .. FDen

\* ------------------------------------------------------------ behaviour
Init ==
  /\ \E ch \in Channels :
       /\ image1 \in Images(1, ch)
       /\ image2 \in Images(2, ch)
  /\ slider_position \in Positions_f
  /\ img1_np = NoResult
  /\ img2_np = NoResult
  /\ frame = NoResult
  /\ result = NoResult

Return(out) ==
  /\ image1' = out.image1
  /\ image2' = out.image2
  /\ img1_np' = out.img1_np
  /\ img2_np' = out.img2_np
  /\ frame' = out.frame
  /\ result' = out.result

\* A call create_before_after_comparison(image1, image2, slider_position).
Call ==
  /\ result = NoResult
  /\ Return(create_before_after_comparison(image1, image2, slider_position))
  /\ UNCHANGED slider_position

\* main, once both files are uploaded and a comparison is on screen: the
\* user moves the slider, the script reruns and composes the two images
\* at the new value (the path on which the images reach the function as
\* they are).
main(slider_value) ==
  /\ result # NoResult
  /\ slider_position' = slider_value
  /\ Return(create_before_after_comparison(image1, image2, slider_value))

Next ==
  \/ Call
  \/ \E v \in SliderValues : main(v)

Spec == Init /\ [][Next]_vars

\* ------------------------------------------------------------ properties
Done == result # NoResult
SameSize == image1.h = image2.h /\ image1.w = image2.w
InUnitRange == slider_position >= 0 /\ slider_position <= FDen

\* The common size, and floor(W * f), computed from the inputs alone.
W == IF image1.w <= image2.w THEN image1.w ELSE image2.w
H == IF image1.h <= image2.h THEN image1.h ELSE image2.h
FloorBoundary == (W * slider_position) \div FDen

LineDrawn == "start_x" \in DOMAIN frame
InBand(c) == LineDrawn /\ c >= frame.start_x /\ c < frame.end_x

\* The pure A/B split at column b: image1 left of b, image2 from b on.
Split(b, p) == IF p[2] < b THEN image1.px[p] ELSE image2.px[p]

\* C1 -- Boundary exactness: for equally sized images and a fraction in
\* [0,1], with boundaryColumn = floor(W * f), every pixel of the returned
\* image outside the marker band is image1's pixel when its column is left
\* of boundaryColumn and image2's pixel otherwise.
C1_BoundaryExactness ==
  (Done /\ IsImage(result) /\ SameSize /\ InUnitRange) =>
    \A p \in Positions(H, W) :
      ~InBand(p[2]) =>
        /\ p \in DOMAIN result.px
        /\ result.px[p] = Split(FloorBoundary, p)

C1_Witness ==
  /\ Done /\ IsImage(result) /\ SameSize /\ InUnitRange /\ LineDrawn
  /\ \E p, q \in Positions(H, W) :
       /\ ~InBand(p[2]) /\ p[2] < FloorBoundary
       /\ result.px[p] = image1.px[p] /\ result.px[p] # image2.px[p]
       /\ ~InBand(q[2]) /\ q[2] >= FloorBoundary
       /\ result.px[q] = image2.px[q] /\ result.px[q] # image1.px[q]

\* C2 -- Marker coverage: with line width 3 and boundaryColumn b strictly
\* between 1 and W-2, the columns b-1, b and b+1 hold the line colour on
\* every row of the output and no other column is overwritten by the marker.
C2_MarkerCoverage ==
  (Done /\ IsImage(result) /\ SameSize /\ InUnitRange
        /\ 1 < FloorBoundary /\ FloorBoundary < W - 2) =>
    \A p \in DOMAIN result.px :
      result.px[p] =
        IF p[2] \in {FloorBoundary - 1, FloorBoundary, FloorBoundary + 1}
          THEN white
          ELSE Split(FloorBoundary, p)

\* C3 -- Clamping: the output for a fraction below 0 is the output for 0,
\* and the output for a fraction above 1 is the output for 1.
C3_Clamping ==
  (Done /\ SameSize) =>
    /\ slider_position < 0 =>
         result = create_before_after_comparison(image1, image2, 0).result
    /\ slider_position > FDen =>
         result = create_before_after_comparison(image1, image2, FDen).result

\* C4 -- Identity at extremes: for equally sized images with W >= 2, the
\* output at fraction 0 is image2 exactly, the output at fraction 1 is image1
\* exactly, and in neither case is the marker written.
C4_IdentityAtExtremes ==
  (Done /\ SameSize /\ W >= 2) =>
    /\ slider_position = 0 => (result = image2 /\ ~LineDrawn)
    /\ slider_position = FDen => (result = image1 /\ ~LineDrawn)

C4_Witness ==
  /\ Done /\ SameSize /\ W >= 3 /\ H >= 1
  /\ slider_position = 0
  /\ image1 # image2
  /\ result = image2

\* C5 -- Slider help text: at slider value 0 the comparison shows only the
\* before image (image1), at slider value 1 only the after image (image2).
C5_SliderExtremes ==
  Done =>
    /\ slider_position = 0 => result = Crop(image1, H, W)
    /\ slider_position = FDen => result = Crop(image2, H, W)

\* C6 -- Totality: for images of the same channel layout (3 or 4 channels)
\* and any fraction, the call returns an image and never raises (stated on
\* images of at least one pixel, the ones an image decoder yields).
C6_Totality == (Done /\ H >= 1 /\ W >= 1) => IsImage(result)

\* C7 -- Non-mutation: a call leaves the caller's image1 and image2 as they
\* were, and its writes land only in the array np.copy allocated: the arrays
\* made from image1 and image2 still hold the images' pixels afterwards.
C7_NonMutation ==
  [][/\ image1' = image1
     /\ image2' = image2
     /\ img1_np' = image1
     /\ img2_np' = image2]_vars

C7_Witness ==
  /\ Done /\ IsImage(result) /\ LineDrawn /\ H >= 1
  /\ frame.boundary_x < frame.width
  /\ result # Crop(image1, H, W)
  /\ result # Crop(image2, H, W)
  /\ img1_np = image1
  /\ img2_np = image2

\* C8 -- Output dimensions: for a fraction in [0,1] the returned image has
\* min(wA, wB) columns and min(hA, hB) rows, and its pixel at (r, c) is
\* image1's pixel at (r, c), image2's pixel at (r, c), or the line colour.
C8_OutputDimensions ==
  (Done /\ IsImage(result) /\ InUnitRange) =>
    /\ result.h = H
    /\ result.w = W
    /\ DOMAIN result.px = Positions(H, W)
    /\ \A p \in Positions(H, W) :
         result.px[p] \in {image1.px[p], image2.px[p], white}

C8_Witness ==
  /\ Done /\ IsImage(result) /\ InUnitRange
  /\ image1.w > image2.w /\ image1.h < image2.h
  /\ H >= 1 /\ W >= 3
  /\ result.h = image1.h /\ result.w = image2.w
  /\ \E p, q \in Positions(H, W) :
       result.px[p] = image1.px[p] /\ result.px[q] = image2.px[q]
         /\ image1.px[p] # image2.px[p] /\ image1.px[q] # image2.px[q]

\* C9 -- Marker draw rule: for a fraction in [0,1] the marker branch is
\* taken exactly when 0 < boundaryColumn < W-1; when drawn it overwrites, on
\* every row, exactly the columns [startX, endX), startX = max(0, b - 3 div 2)
\* and endX = min(W, b + 3 div 2); when not drawn the output is the pure
\* A/B split.
C9_MarkerDrawRule ==
  (Done /\ InUnitRange) =>
    LET b == FloorBoundary
        startX == IF b - 3 \div 2 >= 0 THEN b - 3 \div 2 ELSE 0
        endX == IF b + 3 \div 2 <= W THEN b + 3 \div 2 ELSE W
    IN  /\ LineDrawn <=> (0 < b /\ b < W - 1)
        /\ LineDrawn => (frame.start_x = startX /\ frame.end_x = endX)
        /\ IsImage(result) =>
             \A p \in Positions(H, W) :
               /\ p \in DOMAIN result.px
               /\ result.px[p] =
                    IF LineDrawn /\ p[2] >= startX /\ p[2] < endX
                      THEN white
                      ELSE Split(b, p)

C9_Witness ==
  /\ Done /\ InUnitRange /\ IsImage(result) /\ LineDrawn /\ H >= 2
  /\ FloorBoundary = 2
  /\ \A r \in 0 .. H - 1 :
       /\ result.px[<<r, 1>>] = white
       /\ result.px[<<r, 2>>] = white
       /\ result.px[<<r, 3>>] = image2.px[<<r, 3>>]
       /\ result.px[<<r, 0>>] = image1.px[<<r, 0>>]

\* C10 -- Boundary range: for every width and a fraction in [0,1] the
\* boundary column is an integer in 0..W, the image2 overwrite covers
\* exactly the W - boundaryColumn rightmost columns, and the marker band,
\* when drawn, is [b-1, b+1) inside [0, W): max and min leave its ends alone.
C10_BoundaryRange ==
  (Done /\ InUnitRange) =>
    LET b == frame.boundary_x
    IN  /\ frame.width = W
        /\ b \in 0 .. W
        /\ Cardinality({c \in 0 .. W - 1 : c >= SliceIndex(b, W)}) = W - b
        /\ LineDrawn =>
             /\ frame.start_x = b - line_thickness \div 2
             /\ frame.end_x = b + line_thickness \div 2
             /\ 0 <= frame.start_x
             /\ frame.start_x < frame.end_x
             /\ frame.end_x <= W

C10_Witness ==
  /\ Done /\ InUnitRange /\ LineDrawn
  /\ frame.boundary_x = 1
  /\ frame.start_x = 0
  /\ frame.end_x = 2
  /\ frame.width >= 3

====
